---------------------------- MODULE Spec2Model ----------------------------
(***************************************************************************)
(* Client side of the HTTP -> WebSocket upgrade handshake                  *)
(* (src/src/websocket/client.rs): the request Encoder, the Authorizer      *)
(* capability with SimpleAuthorizer, and the HandshakeProto future.        *)
(*                                                                         *)
(* Buffers are sequences of wire tokens.  A request is                     *)
(*    <<reqline, hdr, ..., hdr, crlf>>                                     *)
(* and a response is                                                       *)
(*    <<status, crlf, hdr, ..., hdr, crlf, data, ...>>                     *)
(* where reqline and hdr are whole lines, status is the text of the status *)
(* line and the crlf after it ends the line, so that a response can be cut *)
(* before the status line's end and between any two lines.                 *)
(***************************************************************************)
EXTENDS Integers, Sequences, FiniteSets, TLC

VARIABLES
    pc,          \* "new": inside HandshakeProto::new; "polling"; "aborted" (panic)
    authorizer,  \* the Authorizer moved into HandshakeProto::new
    message,     \* Encoder.message : MessageState
    out_buf,     \* WriteBuf.out_buf : bytes enqueued and not yet sent
    lastCall,    \* the Encoder call made last and how it returned
    written,     \* history: headers the Authorizer's calls appended, in call order
    output,      \* HandshakeProto.output is Some
    input,       \* HandshakeProto.input is Some
    in_buf,      \* ReadBuf.in_buf : bytes read and not yet consumed
    read_done,   \* ReadBuf.done : a read returned end of stream
    sent,        \* history: bytes the transport accepted from flush
    recvd,       \* history: bytes the transport handed to read
    nreads,      \* history: number of reads that returned bytes
    wire,        \* environment: bytes the peer has still to send
    sock,        \* environment: bytes in the socket's receive queue
    eof,         \* environment: the peer closed its side
    result,      \* what the last poll returned
    perr,        \* the httparse error inside a HeaderError result
    attempts,    \* header-table sizes the parser was run with in the last poll
    head,        \* the Head given to headers_received in the last poll
    hrCalls,     \* history: number of headers_received invocations
    framed,      \* number of framed channels created from each half
    steps,       \* history: what the last poll did, in order
    prev         \* history: what the poll before the last one returned

vars == <<pc, authorizer, message, out_buf, lastCall, written, output, input,
          in_buf, read_done, sent, recvd, nreads, wire, sock, eof, result,
          perr,
          attempts, head, hrCalls, framed, steps, prev>>

encVars  == <<message, out_buf, lastCall, written>>
pollVars == <<output, input, in_buf, read_done, sent, recvd, nreads, result, perr,
              attempts, head, hrCalls, framed, steps, prev>>
envVars  == <<wire, sock, eof>>

-----------------------------------------------------------------------------
(* Bounds of the model *)

\* headers a custom Authorizer writes before done()
MaxCalls == 2
\* headers_received invocations after which the driver stops polling
MaxReceived == 2
\* reads that returned bytes, counted up to this number
MaxReadsCounted == 2
\* bytes that follow the header block in the peer's stream
MaxTrailing == 1

-----------------------------------------------------------------------------
(* Program constants *)

MIN_HEADERS == 16
MAX_HEADERS == 1024

-----------------------------------------------------------------------------
(* Wire tokens *)

ReqLine(method, path, version) ==
    [t |-> "reqline", method |-> method, path |-> path, version |-> version]
Hdr(name, value) == [t |-> "hdr", name |-> name, value |-> value]
CRLF == [t |-> "crlf"]
StatusText(ver, code, reason) ==
    [t |-> "status", ver |-> ver, code |-> code, reason |-> reason]
Data(n) == [t |-> "data", n |-> n]
Junk == [t |-> "junk"]

\* str::to_ascii_lowercase on the header names the model uses
Lower(name) ==
    CASE name \in {"Connection", "CONNECTION", "connection"} -> "connection"
      [] name \in {"Upgrade", "upgrade", "UPGRADE"} -> "upgrade"
      [] name \in {"Sec-WebSocket-Key", "Sec-Websocket-Key", "sec-websocket-key"}
            -> "sec-websocket-key"
      [] name \in {"Sec-WebSocket-Version", "Sec-Websocket-Version",
                   "sec-websocket-version"} -> "sec-websocket-version"
      [] name \in {"Sec-WebSocket-Protocol"} -> "sec-websocket-protocol"
      [] name \in {"Host", "host"} -> "host"
      [] name \in {"Origin"} -> "origin"
      [] name \in {"User-Agent"} -> "user-agent"
      [] name \in {"Cookie"} -> "cookie"
      [] OTHER -> name

eq_ignore_ascii_case(a, b) == Lower(a) = Lower(b)

\* header values and paths that hold a CR or LF byte
WithLineBreak ==
    {"v\r\nX-Injected: 1", "evil\r\nhost",
     "http://evil\r\nhost/", "http://evil\r\nhost/chat"}

-----------------------------------------------------------------------------
(* base_serializer::MessageState, the request-side states.  An encoder is   *)
(* [message, buf, res]; res is "ok", "err" (Err(HeaderError) returned) or   *)
(* "panic".                                                                 *)

Enc(m, b, r) == [message |-> m, buf |-> b, res |-> r]

invalid_header(value) == value \in WithLineBreak

MS_request_line(e, method, path, version) ==
    IF e.message = "RequestStart"
    THEN Enc("Headers", Append(e.buf, ReqLine(method, path, version)), "ok")
    ELSE Enc(e.message, e.buf, "panic")

MS_add_header(e, name, value) ==
    IF e.message # "Headers" THEN Enc(e.message, e.buf, "panic")
    ELSE IF invalid_header(value) THEN Enc(e.message, e.buf, "err")
    ELSE Enc(e.message, Append(e.buf, Hdr(name, value)), "ok")

MS_format_header(e, name, value) == MS_add_header(e, name, value)

\* Ok(true): a GET request carries no body
MS_done_headers(e) ==
    IF e.message = "Headers"
    THEN Enc("Bodyless", Append(e.buf, CRLF), "ok")
    ELSE Enc(e.message, e.buf, "panic")

MS_done(e) ==
    IF e.message = "Bodyless"
    THEN Enc("Done", e.buf, "ok")
    ELSE Enc(e.message, e.buf, "panic")

\* Result::unwrap
unwrap(e) == IF e.res = "ok" THEN e ELSE Enc(e.message, e.buf, "panic")

-----------------------------------------------------------------------------
(* Encoder *)


\* TRUE when check_header panics
check_header(name) ==
    \/ eq_ignore_ascii_case(name, "Connection")
    \/ eq_ignore_ascii_case(name, "Upgrade")
    \/ eq_ignore_ascii_case(name, "Sec-Websocket-Key")

encoder_InHeaders(io) == Enc("Headers", io, "ok")

encoder(io) == Enc("RequestStart", io, "ok")

request_line(e, path) == MS_request_line(e, "GET", path, "HTTP/1.1")

add_header(e, name, value) ==
    IF check_header(name) THEN Enc(e.message, e.buf, "panic")
    ELSE MS_add_header(e, name, value)

format_header(e, name, value) ==
    IF check_header(name) THEN Enc(e.message, e.buf, "panic")
    ELSE MS_format_header(e, name, value)

\* the next call on an encoder: it is made when the calls before it neither
\* panicked nor failed an unwrap
AndThen(e, F(_)) ==
    CHOOSE r \in {IF x.res = "ok" THEN F(x) ELSE x : x \in {e}} : TRUE

done_KeyLast(e, key) ==
    AndThen(AndThen(AndThen(AndThen(AndThen(AndThen(e,
        LAMBDA x : unwrap(MS_add_header(x, "Connection", "upgrade"))),
        LAMBDA x : unwrap(MS_add_header(x, "Upgrade", "websocket"))),
        LAMBDA x : unwrap(MS_add_header(x, "Sec-WebSocket-Version", "13"))),
        LAMBDA x : unwrap(MS_format_header(x, "Sec-WebSocket-Key", key))),
        LAMBDA x : unwrap(MS_done_headers(x))),
        LAMBDA x : MS_done(x))

\* Encoder::done
done(e, key) ==
    AndThen(AndThen(AndThen(AndThen(AndThen(AndThen(e,
        LAMBDA x : unwrap(MS_add_header(x, "Connection", "upgrade"))),
        LAMBDA x : unwrap(MS_add_header(x, "Upgrade", "websocket"))),
        LAMBDA x : unwrap(MS_format_header(x, "Sec-WebSocket-Key", key))),
        LAMBDA x : unwrap(MS_add_header(x, "Sec-WebSocket-Version", "13"))),
        LAMBDA x : unwrap(MS_done_headers(x))),
        LAMBDA x : MS_done(x))

-----------------------------------------------------------------------------
(* Authorizers *)

Hosts == {"example.org", "evil\r\nhost"}
Paths == {"/", "/chat"}
\* Key::new() ("TODO generate real random key")
Keys  == {"a2V5MQ=="}
USER_AGENT == "tk-http/0.1"

Origin(host, path) == "http://" \o host \o path

Simple(host, path) == [kind |-> "Simple", host |-> host, path |-> path]
Custom == [kind |-> "Custom", host |-> "", path |-> ""]

write_headers_OriginFirst(self, e, key) ==
    AndThen(AndThen(AndThen(AndThen(AndThen(e,
        LAMBDA x : request_line(x, self.path)),
        LAMBDA x : unwrap(format_header(x, "Origin", Origin(self.host, self.path)))),
        LAMBDA x : unwrap(add_header(x, "Host", self.host))),
        LAMBDA x : unwrap(add_header(x, "User-Agent", USER_AGENT))),
        LAMBDA x : done(x, key))

\* SimpleAuthorizer::write_headers
write_headers(self, e, key) ==
    AndThen(AndThen(AndThen(AndThen(AndThen(e,
        LAMBDA x : request_line(x, self.path)),
        LAMBDA x : unwrap(add_header(x, "Host", self.host))),
        LAMBDA x : unwrap(format_header(x, "Origin", Origin(self.host, self.path)))),
        LAMBDA x : unwrap(add_header(x, "User-Agent", USER_AGENT))),
        LAMBDA x : done(x, key))

\* headers_received: SimpleAuthorizer returns Ok(()); a custom Authorizer
\* returns what it chooses (accept)
headers_received(self, h, accept) ==
    IF self.kind = "Simple" THEN "ok" ELSE IF accept THEN "ok" ELSE "err"

-----------------------------------------------------------------------------
(* The peer's byte stream *)

\* header line j of a response (1-based)
RespHeader(j) ==
    IF j = 1 THEN Hdr("Upgrade", "websocket") ELSE Hdr("X-Pad", "p")

HeaderLines(n) == [j \in 1..n |-> RespHeader(j)]

Trailing(k) == [i \in 1..k |-> Data(i)]

\* status line, n headers, blank line, k bytes of the first frame
Response(ver, code, reason, n, k) ==
    <<StatusText(ver, code, reason), CRLF>> \o HeaderLines(n) \o <<CRLF>>
        \o Trailing(k)

Prefixes(s) == {SubSeq(s, 1, k) : k \in 0..(Len(s) - 1)}

SWITCHING == "Switching Protocols"

\* header counts around the two header-table sizes
HeaderCounts == {0, 1, 2, MIN_HEADERS, MIN_HEADERS + 1, MAX_HEADERS, MAX_HEADERS + 1}

Responses ==
       {Response(1, 101, SWITCHING, n, k) : n \in {0, 1, 2}, k \in 0..MaxTrailing}
    \cup {Response(1, 101, SWITCHING, n, n % 2) : n \in HeaderCounts}
    \cup {Response(1, code, "", 1, 0) : code \in {404, 799}}
    \cup {Response(ver, 101, SWITCHING, 1, 1) : ver \in {0, 2}}
    \cup Prefixes(Response(1, 101, SWITCHING, 2, 0))
    \cup Prefixes(Response(0, 101, SWITCHING, 1, 0))
    \cup {<<StatusText(1, 101, SWITCHING), CRLF, Junk, CRLF>>,
          <<Junk, CRLF, CRLF>>}

\* streams no longer than this are cut at every position
SmallLen == 6

\* the positions at which a stream of `total` bytes is cut into chunks: every
\* position of a short stream; of a long one the first two, the last three
\* and the first byte of header MIN_HEADERS + 1
CutOK(pos, total) ==
    \/ total <= SmallLen
    \/ pos <= 2
    \/ total - pos <= 3
    \/ pos = 2 + MIN_HEADERS + 1

-----------------------------------------------------------------------------
(* httparse::Response::parse over a table of `slots` headers.               *)
(* Header j (0-based) is at HdrPos(j).  The parser walks the header lines   *)
(* in order and stops at the first position that holds no header line, or   *)
(* at header number `slots`, for which it has no slot.                      *)

HdrPos(j) == 3 + j

\* header j is a header line of buf
Regular(buf, j) ==
    /\ HdrPos(j) <= Len(buf)
    /\ buf[HdrPos(j)].t = "hdr"

\* what the parser finds at header j when the lines before it are regular
AtHeader(buf, slots, j) ==
    LET p == HdrPos(j) IN
    IF p > Len(buf) THEN "Partial"
    ELSE IF buf[p].t = "crlf" THEN "Complete"
    ELSE IF buf[p].t # "hdr" THEN "HeaderName"
    ELSE IF j >= slots THEN "TooManyHeaders"
    ELSE "next"

\* the first header position that is not a regular header line
FirstIrregular(buf) ==
    LET irr == {j \in 0..Len(buf) : ~Regular(buf, j)}
    IN  CHOOSE j \in irr : \A i \in irr : j <= i

Parsed(status, err, bytes, version, code, reason, headers) ==
    [status |-> status, err |-> err, bytes |-> bytes, version |-> version,
     code |-> code, reason |-> reason, headers |-> headers]

ParseError(err) == Parsed("Error", err, 0, 0, 0, "", <<>>)
ParsePartial == Parsed("Partial", "", 0, 0, 0, "", <<>>)

httparse_parse(buf, slots) ==
    IF Len(buf) = 0 THEN ParsePartial
    ELSE IF buf[1].t # "status" THEN ParseError("Version")
    ELSE IF buf[1].ver \notin {0, 1} THEN ParseError("Version")
    ELSE IF Len(buf) = 1 THEN ParsePartial
    ELSE IF buf[2].t # "crlf" THEN ParseError("Status")
    ELSE LET j0 == FirstIrregular(buf)
             at == IF j0 > slots THEN "TooManyHeaders"
                   ELSE AtHeader(buf, slots, j0)
         IN  CASE at = "Complete" ->
                    Parsed("Complete", "", HdrPos(j0), buf[1].ver, buf[1].code,
                           buf[1].reason,
                           [i \in 1..j0 |-> buf[HdrPos(i - 1)]])
               [] at = "Partial" -> ParsePartial
               [] OTHER -> ParseError(at)

\* netbuf::Buf::consume
consume(buf, bytes) == SubSeq(buf, bytes + 1, Len(buf))

-----------------------------------------------------------------------------
(* tk_bufstream: WriteBuf::flush and ReadBuf::read on a non-blocking socket *)

\* fl = -1: the socket write fails; fl = k: the socket accepts k bytes and
\* then would block (or the buffer is drained); neither is an error
flush(buf, out, fl) ==
    IF fl < 0 THEN [err |-> TRUE, out_buf |-> buf, sent |-> out]
    ELSE [err |-> FALSE, out_buf |-> SubSeq(buf, fl + 1, Len(buf)),
          sent |-> out \o SubSeq(buf, 1, fl)]

\* one read of the socket.  rd = -1: the read fails; otherwise rd bytes of
\* the receive queue are appended; an empty queue gives Ok(0), and sets
\* `done` when the peer has closed
read(buf, isDone, queue, closed, rd) ==
    IF rd < 0
    THEN [err |-> TRUE, in_buf |-> buf, done |-> isDone, sock |-> queue,
          got |-> <<>>]
    ELSE IF queue = <<>>
    THEN [err |-> FALSE, in_buf |-> buf, done |-> (isDone \/ closed),
          sock |-> queue, got |-> <<>>]
    ELSE [err |-> FALSE, in_buf |-> buf \o SubSeq(queue, 1, rd), done |-> isDone,
          sock |-> SubSeq(queue, rd + 1, Len(queue)),
          got |-> SubSeq(queue, 1, rd)]

-----------------------------------------------------------------------------
(* HandshakeProto *)

NoHead == [version |-> "", code |-> 0, reason |-> "", headers |-> <<>>]
ResponseHead(code, reason, headers) ==
    [version |-> "Http11", code |-> code, reason |-> reason, headers |-> headers]

\* Head::all_headers
all_headers(h) == h.headers
\* Head::raw_status
raw_status(h) == <<h.code, h.reason>>

PH(ret, err, buf, tried, h, called) ==
    [ret |-> ret, perr |-> err, in_buf |-> buf, attempts |-> tried,
     head |-> h, called |-> called]

Tried(res, tried) == [res |-> res, tried |-> tried]

parse_response_NoRetry(buf) ==
    Tried(httparse_parse(buf, MIN_HEADERS), <<MIN_HEADERS>>)

parse_response_RetryAnyError(buf) ==
    IF httparse_parse(buf, MIN_HEADERS).status = "Error"
    THEN Tried(httparse_parse(buf, MAX_HEADERS), <<MIN_HEADERS, MAX_HEADERS>>)
    ELSE Tried(httparse_parse(buf, MIN_HEADERS), <<MIN_HEADERS>>)

\* parse_headers, the parse: the table of MIN_HEADERS slots first, and the
\* table of MAX_HEADERS slots when that one is too small
parse_response(buf) ==
    IF \E first \in {httparse_parse(buf, MIN_HEADERS)} :
          first.status = "Error" /\ first.err = "TooManyHeaders"
    THEN Tried(httparse_parse(buf, MAX_HEADERS), <<MIN_HEADERS, MAX_HEADERS>>)
    ELSE Tried(httparse_parse(buf, MIN_HEADERS), <<MIN_HEADERS>>)

on_complete_ConsumeAll(self, buf, res, tried, accept) ==
    IF res.version # 1
    THEN PH("Panic", "", buf, tried, NoHead, 0)
    ELSE IF headers_received(self,
                ResponseHead(res.code, res.reason, res.headers), accept) = "ok"
    THEN PH("Some", "", consume(buf, Len(buf)), tried,
            ResponseHead(res.code, res.reason, res.headers), 1)
    ELSE PH("Authorizer", "", buf, tried,
            ResponseHead(res.code, res.reason, res.headers), 1)

on_complete_Require101(self, buf, res, tried, accept) ==
    IF res.version # 1
    THEN PH("Panic", "", buf, tried, NoHead, 0)
    ELSE IF res.code # 101
    THEN PH("HeaderError", "Status", buf, tried, NoHead, 0)
    ELSE IF headers_received(self,
                ResponseHead(res.code, res.reason, res.headers), accept) = "ok"
    THEN PH("Some", "", consume(buf, res.bytes), tried,
            ResponseHead(res.code, res.reason, res.headers), 1)
    ELSE PH("Authorizer", "", buf, tried,
            ResponseHead(res.code, res.reason, res.headers), 1)

\* parse_headers, the arm httparse::Status::Complete(bytes)
on_complete(self, buf, res, tried, accept) ==
    IF res.version # 1
    THEN PH("Panic", "", buf, tried, NoHead, 0)
    ELSE IF headers_received(self,
                ResponseHead(res.code, res.reason, res.headers), accept) = "ok"
    THEN PH("Some", "", consume(buf, res.bytes), tried,
            ResponseHead(res.code, res.reason, res.headers), 1)
    ELSE PH("Authorizer", "", buf, tried,
            ResponseHead(res.code, res.reason, res.headers), 1)

parse_headers_PartialIsError(self, buf, accept) ==
    LET p == parse_response(buf)
    IN  CASE p.res.status = "Error" ->
                PH("HeaderError", p.res.err, buf, p.tried, NoHead, 0)
          [] p.res.status = "Partial" ->
                PH("HeaderError", "Partial", buf, p.tried, NoHead, 0)
          [] OTHER -> on_complete(self, buf, p.res, p.tried, accept)

\* parse_headers: ret is "Some", "None", "HeaderError" (perr says which),
\* "Authorizer" (the error headers_received returned) or "Panic"
parse_headers(self, buf, accept) ==
    LET p == parse_response(buf)
    IN  CASE p.res.status = "Error" ->
                PH("HeaderError", p.res.err, buf, p.tried, NoHead, 0)
          [] p.res.status = "Partial" ->
                PH("None", "", buf, p.tried, NoHead, 0)
          [] OTHER -> on_complete(self, buf, p.res, p.tried, accept)

\* the fields of the state that a poll reads and writes
Cur ==
    [result |-> result, perr |-> "", out_buf |-> out_buf, sent |-> sent,
     in_buf |-> in_buf, read_done |-> read_done, sock |-> sock,
     recvd |-> recvd, nreads |-> nreads, input |-> input, output |-> output,
     attempts |-> <<>>, head |-> NoHead, hrCalls |-> hrCalls, framed |-> framed,
     steps |-> <<>>]

\* what parse_headers did, in order
ParseSteps(ph) ==
    <<"parse">>
        \o (IF ph.called = 1 THEN <<"headers_received">> ELSE <<>>)
        \o (IF ph.ret = "Some" THEN <<"consume">> ELSE <<>>)

poll_parse_InputOnly(c, ph) ==
    CASE ph.ret = "Some" ->
            [c EXCEPT !.result = "Ready", !.input = FALSE,
                      !.framed = [r |-> c.framed.r + 1, w |-> c.framed.w],
                      !.in_buf = ph.in_buf, !.attempts = ph.attempts,
                      !.head = ph.head, !.hrCalls = c.hrCalls + ph.called,
                      !.steps = c.steps \o ParseSteps(ph) \o <<"take">>]
      [] ph.ret = "None" ->
            [c EXCEPT !.result = "NotReady", !.attempts = ph.attempts,
                      !.steps = c.steps \o ParseSteps(ph)]
      [] OTHER ->
            [c EXCEPT !.result = ph.ret, !.perr = ph.perr,
                      !.attempts = ph.attempts, !.head = ph.head,
                      !.hrCalls = c.hrCalls + ph.called,
                      !.steps = c.steps \o ParseSteps(ph)]

\* poll, the match on parse_headers()
poll_parse(c, ph) ==
    CASE ph.ret = "Some" ->
            [c EXCEPT !.result = "Ready", !.input = FALSE, !.output = FALSE,
                      !.framed = [r |-> c.framed.r + 1, w |-> c.framed.w + 1],
                      !.in_buf = ph.in_buf, !.attempts = ph.attempts,
                      !.head = ph.head, !.hrCalls = c.hrCalls + ph.called,
                      !.steps = c.steps \o ParseSteps(ph) \o <<"take">>]
      [] ph.ret = "None" ->
            [c EXCEPT !.result = "NotReady", !.attempts = ph.attempts,
                      !.steps = c.steps \o ParseSteps(ph)]
      [] OTHER ->
            [c EXCEPT !.result = ph.ret, !.perr = ph.perr,
                      !.attempts = ph.attempts, !.head = ph.head,
                      !.hrCalls = c.hrCalls + ph.called,
                      !.steps = c.steps \o ParseSteps(ph)]

\* the ReadBuf after the read
AfterRead(c, rb) ==
    [c EXCEPT !.in_buf = rb.in_buf, !.read_done = rb.done, !.sock = rb.sock,
              !.recvd = c.recvd \o rb.got, !.steps = Append(c.steps, "read"),
              !.nreads = IF rb.got = <<>> \/ c.nreads = MaxReadsCounted
                         THEN c.nreads ELSE c.nreads + 1]

poll_read_NoDoneCheck(c, rb, accept) ==
    IF ~c.input THEN [c EXCEPT !.result = "Panic"]
    ELSE IF rb.err
    THEN [c EXCEPT !.result = "Io", !.steps = Append(c.steps, "read_err")]
    ELSE poll_parse(AfterRead(c, rb), parse_headers(authorizer, rb.in_buf, accept))

poll_read_ReadErrorIgnored(c, rb, accept) ==
    IF ~c.input THEN [c EXCEPT !.result = "Panic"]
    ELSE IF rb.done
    THEN [AfterRead(c, rb) EXCEPT !.result = "PrematureResponseHeaders"]
    ELSE poll_parse(IF rb.err
                    THEN [c EXCEPT !.steps = Append(c.steps, "read_err")]
                    ELSE AfterRead(c, rb),
                    parse_headers(authorizer, rb.in_buf, accept))

\* poll, from the read on; rb is what ReadBuf::read did
poll_read(c, rb, accept) ==
    IF ~c.input THEN [c EXCEPT !.result = "Panic"]
    ELSE IF rb.err
    THEN [c EXCEPT !.result = "Io", !.steps = Append(c.steps, "read_err")]
    ELSE IF rb.done
    THEN [AfterRead(c, rb) EXCEPT !.result = "PrematureResponseHeaders"]
    ELSE poll_parse(AfterRead(c, rb), parse_headers(authorizer, rb.in_buf, accept))

AfterFlush_KeepBuffer(c, w) ==
    [c EXCEPT !.sent = w.sent, !.steps = Append(c.steps, "flush")]

\* the WriteBuf after the flush
AfterFlush(c, w) ==
    [c EXCEPT !.out_buf = w.out_buf, !.sent = w.sent,
              !.steps = Append(c.steps, "flush")]

poll_EndOnPartialFlush(fl, rd, accept) ==
    IF ~output THEN [Cur EXCEPT !.result = "Panic"]
    ELSE IF flush(out_buf, sent, fl).err
    THEN [Cur EXCEPT !.result = "Io", !.steps = <<"flush_err">>]
    ELSE IF flush(out_buf, sent, fl).out_buf # <<>>
    THEN [AfterFlush(Cur, flush(out_buf, sent, fl)) EXCEPT !.result = "NotReady"]
    ELSE poll_read(AfterFlush(Cur, flush(out_buf, sent, fl)),
                   read(in_buf, read_done, sock, eof, rd), accept)

\* Future::poll.  fl and rd are what the socket does in the flush and in the
\* read; accept is a custom Authorizer's verdict
poll(fl, rd, accept) ==
    IF ~output THEN [Cur EXCEPT !.result = "Panic"]
    ELSE IF flush(out_buf, sent, fl).err
    THEN [Cur EXCEPT !.result = "Io", !.steps = <<"flush_err">>]
    ELSE poll_read(AfterFlush(Cur, flush(out_buf, sent, fl)),
                   read(in_buf, read_done, sock, eof, rd), accept)

-----------------------------------------------------------------------------
(* The state machine *)

NoCall == [op |-> "none", name |-> "", value |-> "", res |-> "ok"]
Call(op, name, value, res) ==
    [op |-> op, name |-> name, value |-> value, res |-> res]

TerminalResults ==
    {"Ready", "Io", "HeaderError", "PrematureResponseHeaders", "Authorizer"}

\* header names and values a custom Authorizer writes
HeaderNames ==
    {"Host", "CONNECTION", "upgrade", "Sec-WebSocket-Key", "sec-websocket-key",
     "Sec-WebSocket-Version", "sec-websocket-version"}
HeaderValues == {"v", "v\r\nX-Injected: 1"}

\* the responses the other handshakes are run against
FewResponses ==
    {Response(1, 101, SWITCHING, 1, 1), Response(1, 404, "", 1, 0),
     <<StatusText(1, 101, SWITCHING)>>}

Authorizers == {Simple(h, p) : h \in Hosts, p \in Paths} \cup {Custom}

Init ==
    /\ pc = "new"
    /\ authorizer \in Authorizers
    /\ out_buf = <<>>
    /\ message = encoder(out_buf).message
    /\ lastCall = NoCall
    /\ written = <<>>
    /\ output = FALSE
    /\ input = FALSE
    /\ in_buf = <<>>
    /\ read_done = FALSE
    /\ sent = <<>>
    /\ recvd = <<>>
    /\ nreads = 0
    /\ wire \in IF authorizer = Simple("example.org", "/") THEN Responses
                ELSE FewResponses
    /\ sock = <<>>
    /\ eof = FALSE
    /\ result = "none"
    /\ perr = ""
    /\ attempts = <<>>
    /\ head = NoHead
    /\ hrCalls = 0
    /\ framed = [r |-> 0, w |-> 0]
    /\ steps = <<>>
    /\ prev = "none"

\* the Encoder in the hands of write_headers
TheEncoder == Enc(message, out_buf, "ok")

\* an Encoder call returned e: the panic unwinds out of HandshakeProto::new
EncoderStep(e, call, appended) ==
    /\ message' = e.message
    /\ out_buf' = e.buf
    /\ lastCall' = call
    /\ written' = IF e.res = "ok" THEN written \o appended ELSE written
    /\ pc' = IF e.res = "panic" THEN "aborted" ELSE pc
    /\ UNCHANGED <<authorizer, pollVars, envVars>>

\* a custom Authorizer's write_headers calls Encoder::request_line
AuthRequestLine ==
    /\ pc = "new" /\ authorizer.kind = "Custom"
    /\ Len(out_buf) <= MaxCalls
    /\ \E path \in Paths :
         \E e \in {request_line(TheEncoder, path)} :
             EncoderStep(e, Call("request_line", path, "", e.res),
                         <<ReqLine("GET", path, "HTTP/1.1")>>)

\* a custom Authorizer's write_headers calls Encoder::add_header
AuthAddHeader ==
    /\ pc = "new" /\ authorizer.kind = "Custom"
    /\ Len(out_buf) <= MaxCalls
    /\ \E name \in HeaderNames, value \in HeaderValues :
         \E e \in {add_header(TheEncoder, name, value)} :
             EncoderStep(e, Call("add_header", name, value, e.res),
                         <<Hdr(name, value)>>)

\* a custom Authorizer's write_headers calls Encoder::format_header
AuthFormatHeader ==
    /\ pc = "new" /\ authorizer.kind = "Custom"
    /\ Len(out_buf) <= MaxCalls
    /\ \E name \in HeaderNames, value \in HeaderValues :
         \E e \in {format_header(TheEncoder, name, value)} :
             EncoderStep(e, Call("format_header", name, value, e.res),
                         <<Hdr(name, value)>>)

Constructed_Lazy(e, call, appended) ==
    /\ lastCall' = call
    /\ pc' = IF e.res = "ok" THEN "polling" ELSE "aborted"
    /\ input' = (e.res = "ok")
    /\ output' = (e.res = "ok")
    /\ UNCHANGED <<authorizer, message, out_buf, written, in_buf, read_done,
                   sent, recvd, nreads, result, perr, attempts, head, hrCalls,
                   framed, steps, prev, envVars>>

\* HandshakeProto::new stores the halves once write_headers has returned
Constructed(e, call, appended) ==
    /\ message' = e.message
    /\ out_buf' = e.buf
    /\ lastCall' = call
    /\ written' = written \o appended
    /\ pc' = IF e.res = "ok" THEN "polling" ELSE "aborted"
    /\ input' = (e.res = "ok")
    /\ output' = (e.res = "ok")
    /\ UNCHANGED <<authorizer, in_buf, read_done, sent, recvd, nreads, result, perr,
                   attempts, head, hrCalls, framed, steps, prev, envVars>>

\* a custom Authorizer's write_headers calls Encoder::done and returns
AuthDone ==
    /\ pc = "new" /\ authorizer.kind = "Custom"
    /\ \E key \in Keys :
         \E e \in {done(TheEncoder, key)} :
             Constructed(e, Call("done", "", "", e.res), <<>>)

\* HandshakeProto::new with a SimpleAuthorizer
NewSimple ==
    /\ pc = "new" /\ authorizer.kind = "Simple"
    /\ \E key \in Keys :
         \E e \in {write_headers(authorizer, encoder(out_buf), key)} :
             Constructed(e, Call("write_headers", "", "", e.res),
                 IF e.res = "ok"
                 THEN <<ReqLine("GET", authorizer.path, "HTTP/1.1"),
                        Hdr("Host", authorizer.host),
                        Hdr("Origin", Origin(authorizer.host, authorizer.path)),
                        Hdr("User-Agent", USER_AGENT)>>
                 ELSE <<>>)

\* the peer's next bytes reach the socket's receive queue
Deliver ==
    /\ pc = "polling" /\ wire # <<>>
    /\ \E k \in 1..Len(wire) :
         /\ CutOK(Len(recvd) + Len(sock) + k, Len(recvd) + Len(sock) + Len(wire))
         /\ sock' = sock \o SubSeq(wire, 1, k)
         /\ wire' = SubSeq(wire, k + 1, Len(wire))
    /\ UNCHANGED <<pc, authorizer, encVars, pollVars, eof>>

\* the peer closes the connection after its last byte
PeerClose ==
    /\ pc = "polling" /\ wire = <<>> /\ ~eof
    /\ eof' = TRUE
    /\ UNCHANGED <<pc, authorizer, encVars, pollVars, wire, sock>>

\* the request is cut after its first and before its last byte
FlushOK(pos, total) == pos <= 1 \/ total - pos <= 1

FlushChoices ==
    {-1} \cup {k \in 0..Len(out_buf) :
                 FlushOK(Len(sent) + k, Len(sent) + Len(out_buf))}

ReadChoices ==
    {-1} \cup
    IF sock = <<>> THEN {0}
    ELSE {k \in 1..Len(sock) :
            CutOK(Len(recvd) + k, Len(recvd) + Len(sock) + Len(wire))}

\* what headers_received may answer: SimpleAuthorizer only accepts
Verdicts == IF authorizer.kind = "Custom" THEN BOOLEAN ELSE {TRUE}

\* a poll in which the socket does one of `fls` in the flush and one of
\* `rds` in the read
PollWith(fls, rds) ==
    /\ pc = "polling"
    /\ hrCalls < MaxReceived
    /\ \E fl \in fls, rd \in rds, accept \in Verdicts :
         \E n \in {poll(fl, rd, accept)} :
         /\ result' = n.result
         /\ perr' = n.perr
         /\ out_buf' = n.out_buf
         /\ sent' = n.sent
         /\ in_buf' = n.in_buf
         /\ read_done' = n.read_done
         /\ sock' = n.sock
         /\ recvd' = n.recvd
         /\ nreads' = n.nreads
         /\ input' = n.input
         /\ output' = n.output
         /\ attempts' = n.attempts
         /\ head' = n.head
         /\ hrCalls' = n.hrCalls
         /\ framed' = n.framed
         /\ steps' = n.steps
         /\ prev' = result
         /\ pc' = IF n.result = "Panic" THEN "aborted" ELSE "polling"
    /\ UNCHANGED <<authorizer, message, lastCall, written, wire, eof>>

\* the driver polls the future
Poll == PollWith(FlushChoices, ReadChoices)

\* a poll in which neither the socket's write nor its read fails
PollNoIoError == PollWith(FlushChoices \ {-1}, ReadChoices \ {-1})

Next ==
    \/ AuthRequestLine
    \/ AuthAddHeader
    \/ AuthFormatHeader
    \/ AuthDone
    \/ NewSimple
    \/ Deliver
    \/ PeerClose
    \/ Poll

Spec == Init /\ [][Next]_vars

-----------------------------------------------------------------------------
(* Vocabulary of the properties *)

\* the serialized request: what was sent and what is still to send
Request == sent \o out_buf

FixedHeaders(key) ==
    <<Hdr("Connection", "upgrade"), Hdr("Upgrade", "websocket"),
      Hdr("Sec-WebSocket-Key", key), Hdr("Sec-WebSocket-Version", "13")>>

ReservedNames ==
    {"Connection", "Upgrade", "Sec-WebSocket-Key", "Sec-WebSocket-Version"}

\* number of headers of s named `name`, case-insensitively
Occurrences(name, s) ==
    Cardinality({i \in 1..Len(s) :
                   s[i].t = "hdr" /\ Lower(s[i].name) = Lower(name)})

\* s is a prefix of a well-formed header block that has no blank line yet
\* and no more headers than the larger table holds
OpenBlock(s) ==
    /\ Len(s) <= 2 + MAX_HEADERS
    /\ \A i \in 1..Len(s) :
         /\ i = 1 => s[i].t = "status" /\ s[i].ver \in {0, 1}
         /\ i = 2 => s[i].t = "crlf"
         /\ i >= 3 => s[i].t = "hdr"

\* s starts with a complete header block of n bytes
BlockOf(s, n) ==
    /\ n >= 3 /\ n <= Len(s)
    /\ s[n].t = "crlf"
    /\ OpenBlock(SubSeq(s, 1, n - 1))

HasBlock(s) == \E n \in 3..Len(s) : BlockOf(s, n)

\* s holds MAX_HEADERS + 1 header lines after its status line
OverCeiling(s) ==
    /\ Len(s) >= 3 + MAX_HEADERS
    /\ s[1].t = "status" /\ s[1].ver \in {0, 1} /\ s[2].t = "crlf"
    /\ \A i \in 3..(3 + MAX_HEADERS) : s[i].t = "hdr"

\* s holds MIN_HEADERS + 1 header lines after its status line
OverFastPath(s) ==
    /\ Len(s) >= 3 + MIN_HEADERS
    /\ s[1].t = "status" /\ s[1].ver \in {0, 1} /\ s[2].t = "crlf"
    /\ \A i \in 3..(3 + MIN_HEADERS) : s[i].t = "hdr"

\* the last poll ran the parser
Parsing == result \in {"NotReady", "Ready", "HeaderError", "Authorizer", "Panic"}

\* the driver keeps polling and the socket does not fail forever, the peer
\* keeps sending and then closes, and HandshakeProto::new returns; the
\* peer's stream is a short one that holds no complete header block
InitLive == Init /\ Len(wire) <= SmallLen /\ ~HasBlock(wire)

LiveSpec ==
    /\ InitLive
    /\ [][Next]_vars
    /\ WF_vars(PollNoIoError) /\ WF_vars(Deliver) /\ WF_vars(PeerClose)
    /\ WF_vars(NewSimple) /\ WF_vars(AuthDone)

-----------------------------------------------------------------------------
(* Properties *)

\* C1: once done() has returned, the serialized request is the request line
\* GET <path> HTTP/1.1, then the headers the Authorizer's add_header and
\* format_header calls appended, in call order, then Connection: upgrade,
\* Upgrade: websocket, Sec-WebSocket-Key, Sec-WebSocket-Version: 13 in that
\* order, then the blank line, and nothing after it.
C1_HeaderOrder ==
    message = "Done" =>
      /\ Len(written) >= 1
      /\ written[1] \in {ReqLine("GET", path, "HTTP/1.1") : path \in Paths}
      /\ \A i \in 2..Len(written) : written[i].t = "hdr"
      /\ \E key \in Keys : Request = written \o FixedHeaders(key) \o <<CRLF>>

C1_Witness ==
    /\ message = "Done" /\ authorizer.kind = "Custom"
    /\ Len(written) = 3
    /\ written[2].name # written[3].name

\* C2: add_header and format_header panic for every name that is
\* case-insensitively Connection, Upgrade, Sec-WebSocket-Key or
\* Sec-WebSocket-Version, so that each of the four names occurs exactly once
\* in a request that reached done().
C2_ReservedNamesRejected ==
    /\ (/\ lastCall.op \in {"add_header", "format_header"}
        /\ \E r \in ReservedNames : eq_ignore_ascii_case(lastCall.name, r))
       => lastCall.res = "panic"
    /\ message = "Done" => \A r \in ReservedNames : Occurrences(r, Request) = 1

\* C3: the request a SimpleAuthorizer writes has exactly the headers Host,
\* Origin, User-Agent, Connection, Upgrade, Sec-WebSocket-Key,
\* Sec-WebSocket-Version, once each and in that order, and its Origin is
\* http://<host><path>.
C3_SimpleAuthorizerHeaders ==
    (authorizer.kind = "Simple" /\ message = "Done") =>
      /\ Len(Request) = 9
      /\ Request[1] = ReqLine("GET", authorizer.path, "HTTP/1.1")
      /\ [i \in 1..7 |-> Request[i + 1].name]
           = <<"Host", "Origin", "User-Agent", "Connection", "Upgrade",
               "Sec-WebSocket-Key", "Sec-WebSocket-Version">>
      /\ Request[2].value = authorizer.host
      /\ Request[3].value = "http://" \o authorizer.host \o authorizer.path
      /\ Request[9] = CRLF

C3_Witness ==
    /\ authorizer = Simple("example.org", "/chat")
    /\ message = "Done"
    /\ Len(Request) = 9

\* C4: when poll returns Ready, the bytes consumed from the input buffer are
\* exactly the header block (status line, headers, blank line), however the
\* reads cut the response, and the bytes read after it are the content of
\* the framed reader's buffer, in order.
C4_ExactSpanConsumed ==
    result = "Ready" =>
      /\ BlockOf(recvd, Len(recvd) - Len(in_buf))
      /\ in_buf = SubSeq(recvd, Len(recvd) - Len(in_buf) + 1, Len(recvd))
      /\ ~input /\ framed.r = 1

C4_Witness ==
    /\ result = "Ready"
    /\ nreads = 2
    /\ in_buf = <<Data(1)>>

\* C5: when the peer has closed after sending only a prefix of a header
\* block, a driver that keeps polling gets PrematureResponseHeaders, and
\* never Ready.
C5_PrematureClosureFails ==
    /\ (pc = "polling" /\ eof /\ OpenBlock(recvd \o sock))
          ~> (result = "PrematureResponseHeaders")
    /\ [](eof /\ OpenBlock(recvd \o sock) => result # "Ready")

C5_Witness ==
    /\ eof /\ read_done
    /\ recvd = <<StatusText(1, 101, SWITCHING)>>
    /\ result = "PrematureResponseHeaders"

\* C6: a poll that has parsed an incomplete header block returns NotReady
\* and has consumed nothing, and the poll whose read completes the block of
\* an HTTP/1.1 response returns Ready, in however many reads it arrived.
C6_SplitResponse ==
    /\ (Parsing /\ OpenBlock(recvd))
          => (result = "NotReady" /\ in_buf = recvd /\ input /\ output)
    /\ (/\ pc = "polling" /\ authorizer.kind = "Simple"
        /\ HasBlock(recvd) /\ recvd[1].ver = 1)
          => result = "Ready"

C6_Witness ==
    /\ result = "Ready"
    /\ nreads = 2
    /\ recvd = Response(1, 101, SWITCHING, 1, 0)
    /\ sent # <<>>

\* C7: a response with more than MIN_HEADERS and at most MAX_HEADERS headers
\* is parsed by the second run of the parser, completes the handshake and
\* shows all its headers through all_headers(); the second run is made only
\* for an input with more than MIN_HEADERS headers.
C7_HeaderTableGrowth ==
    /\ result = "Ready" =>
         /\ all_headers(head) = SubSeq(recvd, 3, Len(recvd) - Len(in_buf) - 1)
         /\ attempts = IF Len(all_headers(head)) > MIN_HEADERS
                       THEN <<MIN_HEADERS, MAX_HEADERS>> ELSE <<MIN_HEADERS>>
    /\ Len(attempts) = 2 => OverFastPath(recvd)
    /\ (/\ pc = "polling" /\ authorizer.kind = "Simple"
        /\ OverFastPath(recvd) /\ HasBlock(recvd) /\ recvd[1].ver = 1)
          => result = "Ready"

C7_Witness ==
    /\ result = "Ready"
    /\ Len(all_headers(head)) = MAX_HEADERS
    /\ attempts = <<MIN_HEADERS, MAX_HEADERS>>

\* C8: a response with more than MAX_HEADERS headers fails with the parse
\* error TooManyHeaders; the parser runs at most twice in a poll, the second
\* time only after TooManyHeaders; headers_received is not invoked and no
\* input is consumed.
C8_HardCeiling ==
    /\ attempts \in {<<>>, <<MIN_HEADERS>>, <<MIN_HEADERS, MAX_HEADERS>>}
    /\ Len(attempts) = 2 => OverFastPath(recvd)
    /\ (result = "HeaderError" /\ perr # "TooManyHeaders")
          => attempts = <<MIN_HEADERS>>
    /\ (Parsing /\ OverCeiling(recvd)) =>
         /\ result = "HeaderError" /\ perr = "TooManyHeaders"
         /\ attempts = <<MIN_HEADERS, MAX_HEADERS>>
         /\ hrCalls = 0 /\ head = NoHead
         /\ in_buf = recvd /\ input /\ output

C8_Witness ==
    /\ result = "HeaderError" /\ perr = "TooManyHeaders"
    /\ OverCeiling(recvd)
    /\ attempts = <<MIN_HEADERS, MAX_HEADERS>>

\* C9: a completely received response whose version is not HTTP/1.1 makes
\* poll return a header parse error; headers_received is not invoked and the
\* handshake does not complete.
C9_WrongVersionIsParseError ==
    (/\ Parsing
     /\ Len(recvd) >= 3 /\ recvd[1].t = "status" /\ recvd[1].ver # 1
     /\ \E n \in 3..Len(recvd) :
          /\ recvd[n].t = "crlf" /\ recvd[2].t = "crlf"
          /\ \A i \in 3..(n - 1) : recvd[i].t = "hdr")
      => (result = "HeaderError" /\ hrCalls = 0 /\ input /\ output)

\* C10: headers_received is invoked at most once over all the polls of one
\* HandshakeProto, only on a complete HTTP/1.1 header block, and exactly
\* once when the handshake ends in Ready.
C10_ReceivedAtMostOnce ==
    /\ hrCalls <= 1
    /\ result = "Ready" => hrCalls = 1
    /\ hrCalls > 0 => (HasBlock(recvd) /\ recvd[1].ver = 1)

\* the last poll's flush left request bytes in the write buffer
PartialFlush == steps # <<>> /\ steps[1] = "flush" /\ out_buf # <<>>

\* C11: once a poll has returned Ready or an error, every further poll
\* aborts: it returns neither NotReady nor Ready nor an error, and it does no
\* flush, read, parse or Authorizer call.
C11_PollAfterEndAborts ==
    prev \in TerminalResults =>
        (result = "Panic" /\ pc = "aborted" /\ steps = <<>>)

Did(op) == \E i \in 1..Len(steps) : steps[i] = op

\* C13: a poll whose flush fails returns Io without reading, and a poll whose
\* read fails returns Io without parsing; the failed operation is made once,
\* headers_received is not invoked, everything read so far is still in the
\* input buffer and both halves are still held, unframed.
C13_IoErrorsImmediate ==
    /\ Did("flush_err") => (result = "Io" /\ steps = <<"flush_err">>)
    /\ Did("read_err") => (result = "Io" /\ steps = <<"flush", "read_err">>)
    /\ result = "Io" =>
         /\ steps \in {<<"flush_err">>, <<"flush", "read_err">>}
         /\ attempts = <<>> /\ head = NoHead
         /\ in_buf = recvd
         /\ input /\ output /\ framed = [r |-> 0, w |-> 0]

C13_Witness ==
    /\ result = "Io" /\ steps = <<"flush", "read_err">>
    /\ in_buf # <<>> /\ sock # <<>>

\* C14: the last poll parsed a complete HTTP/1.1 header block: whatever the
\* status code, headers_received is invoked with that code and reason and its
\* answer alone decides between Ready and the Authorizer's error; with a
\* SimpleAuthorizer the handshake completes, with both channels framed.
C14_StatusCodeNotEnforced ==
    (attempts # <<>> /\ HasBlock(recvd) /\ recvd[1].ver = 1) =>
      /\ Did("headers_received")
      /\ raw_status(head) = <<recvd[1].code, recvd[1].reason>>
      /\ result \in {"Ready", "Authorizer"}
      /\ authorizer.kind = "Simple" =>
           (result = "Ready" /\ framed = [r |-> 1, w |-> 1])

C14_Witness ==
    /\ authorizer.kind = "Simple"
    /\ result = "Ready" /\ raw_status(head) = <<404, "">>
    /\ framed = [r |-> 1, w |-> 1]

\* number of request lines in s
ReqLines(s) == Cardinality({i \in 1..Len(s) : s[i].t = "reqline"})

\* s is a request line followed by header lines only
LineAndHeaders(s) ==
    /\ Len(s) >= 1 /\ s[1].t = "reqline"
    /\ \A i \in 2..Len(s) : s[i].t = "hdr"

\* C15: request_line succeeds only as the first write and panics on a second
\* call; add_header and format_header write only after the request line and
\* before done(); done() before request_line panics; the buffer of an
\* EncoderDone is one request line, header lines, and the terminator last.
C15_EncoderStateOrder ==
    /\ message \in {"RequestStart", "Headers", "Done"}
    /\ message = "RequestStart" => Request = <<>>
    /\ message = "Headers" => LineAndHeaders(Request)
    /\ message = "Done" =>
         /\ LineAndHeaders(SubSeq(Request, 1, Len(Request) - 1))
         /\ Request[Len(Request)] = CRLF
         /\ ReqLines(Request) = 1
    /\ lastCall.op = "request_line" =>
         \/ lastCall.res = "ok" /\ Len(out_buf) = 1 /\ message = "Headers"
         \/ lastCall.res = "panic" /\ out_buf # <<>> /\ pc = "aborted"
    /\ (lastCall.op \in {"add_header", "format_header"} /\ lastCall.res # "panic")
         => message = "Headers"
    /\ (lastCall.op \in {"add_header", "format_header"} /\ lastCall.res = "ok")
         => out_buf[Len(out_buf)] = Hdr(lastCall.name, lastCall.value)
    /\ lastCall.op \in {"done", "write_headers"} =>
         \/ lastCall.res = "ok" /\ message = "Done"
         \/ lastCall.res = "panic" /\ message # "Done" /\ pc = "aborted"
    /\ (lastCall.op = "done" /\ written = <<>>) =>
         (lastCall.res = "panic" /\ Request = <<>>)

C15_Witness ==
    /\ lastCall.op = "request_line" /\ lastCall.res = "panic"
    /\ LineAndHeaders(out_buf) /\ Len(out_buf) = 2

\* C16: while HandshakeProto::new runs nothing is sent and nothing is polled;
\* when it has returned, the write buffer holds the whole request, request
\* line to blank line; the polls send bytes of it and add none.
C16_RequestEnqueuedBeforePoll ==
    /\ pc = "new" =>
         (sent = <<>> /\ result = "none" /\ steps = <<>> /\ ~input /\ ~output)
    /\ (pc = "polling" \/ result # "none" \/ sent # <<>>) =>
         /\ message = "Done"
         /\ lastCall.op \in {"done", "write_headers"} /\ lastCall.res = "ok"
         /\ Len(sent) + Len(out_buf) = Len(written) + 5
         /\ Request[1].t = "reqline" /\ Request[Len(Request)] = CRLF
    /\ (pc = "polling" /\ result = "none") => (sent = <<>> /\ Len(out_buf) >= 6)

C16_Witness ==
    /\ pc = "polling" /\ result = "none" /\ sent = <<>>
    /\ authorizer.kind = "Custom"
    /\ Len(out_buf) = 8 /\ out_buf[8] = CRLF

\* C17: poll returns PrematureResponseHeaders only when the peer has closed
\* and the input buffer holds no complete header block.
C17_PrematureOnlyWhenIncomplete ==
    result = "PrematureResponseHeaders" =>
        (eof /\ read_done /\ ~HasBlock(in_buf))

\* C18: a poll in which headers_received fails returns the Authorizer's error
\* with nothing consumed and neither half taken or framed, and the poll after
\* it aborts without parsing or invoking the Authorizer again.
C18_AuthorizerErrorTerminal ==
    /\ result = "Authorizer" =>
         /\ Did("headers_received") /\ ~Did("consume") /\ ~Did("take")
         /\ in_buf = recvd
         /\ input /\ output /\ framed = [r |-> 0, w |-> 0]
    /\ prev = "Authorizer" =>
         /\ result \notin {"Ready", "NotReady", "Authorizer"}
         /\ ~Did("parse") /\ ~Did("headers_received")

\* C19: the read half and the write half are both present or both absent;
\* they are present from the return of HandshakeProto::new until a poll
\* returns Ready, that poll takes both and frames each once, and a poll that
\* returns NotReady or an error leaves both in place, unframed.
C19_HalvesTogether ==
    /\ input = output
    /\ framed.r = framed.w /\ framed.r \in {0, 1}
    /\ pc = "new" => (~input /\ framed.r = 0)
    /\ (pc = "polling" /\ result # "Ready") => (input /\ framed.r = 0)
    /\ result = "Ready" => (~input /\ framed.r = 1 /\ Did("take"))
    /\ Did("take") <=> result = "Ready"
    /\ (result = "Panic" /\ steps = <<>>) =>
         (prev = "Ready" /\ ~input /\ framed.r = 1)
    /\ (result = "Panic" /\ steps # <<>>) => (input /\ framed.r = 0)

C19_Witness ==
    /\ result = "Ready" /\ prev = "NotReady"
    /\ ~input /\ ~output /\ framed = [r |-> 1, w |-> 1]

\* the request as HandshakeProto::new left it in the write buffer
FullRequest(key) == written \o FixedHeaders(key) \o <<CRLF>>

\* C20: whatever the flushes accepted and whenever the reads came, the bytes
\* sent are the first bytes of the request and the write buffer holds the
\* rest, none lost and none twice; a poll that parses a complete HTTP/1.1
\* block while request bytes are unsent still ends the handshake, and on
\* Ready the unsent bytes are in the write half that was framed.
C20_SentIsRequestPrefix ==
    /\ message # "Done" => sent = <<>>
    /\ message = "Done" => \E key \in Keys :
         /\ Len(sent) <= Len(FullRequest(key))
         /\ sent = SubSeq(FullRequest(key), 1, Len(sent))
         /\ out_buf = SubSeq(FullRequest(key), Len(sent) + 1,
                             Len(FullRequest(key)))
    /\ (out_buf # <<>> /\ attempts # <<>> /\ HasBlock(recvd) /\ recvd[1].ver = 1)
         => (result \in {"Ready", "Authorizer"} /\ Did("headers_received"))
    /\ (out_buf # <<>> /\ result = "Ready") => (~output /\ framed.w = 1)

C20_Witness ==
    /\ result = "Ready" /\ framed.w = 1
    /\ Len(sent) = 1 /\ Len(out_buf) = 8
    /\ nreads = 2

=============================================================================
